---- MODULE Spec2Model ----
(***************************************************************************)
(* Job orchestration of the YouTube-to-MP3 converter: the in-memory job    *)
(* store (MemStorage), the conversion pipeline (processConversion) and the *)
(* request handlers that create, delete and archive jobs (registerRoutes). *)
(*                                                                         *)
(* The program runs on one event loop.  A task (an arriving request, the   *)
(* completion of a metadata fetch, a transcoder event, the completion of a *)
(* file-system call) runs to its first await.  The MemStorage methods are  *)
(* async functions without an await of their own: they change the map when *)
(* they are called and return a promise that is already resolved, so the   *)
(* code after "await storage.x(...)" is a microtask, run before the next   *)
(* task.  The variable mq is the microtask queue; a task starts only when  *)
(* it is empty.  A continuation that is alone in the queue and after which  *)
(* the function does nothing that can be seen is folded into the action    *)
(* that queued it.                                                         *)
(*                                                                         *)
(* A file-system call (fs.remove, fs.pathExists) is two steps: the file    *)
(* system performs the operation while the caller waits, at any moment and *)
(* whatever the event loop is running, and a later task delivers the       *)
(* answer to the continuation behind the await.  The libraries that look   *)
(* at a file after the handler has called them are steps of their own too: *)
(* the archiver takes up a file handed to it by archive.file and adds its  *)
(* entry or, when the file is gone, passes it over; res.download sends the *)
(* file or, when it is gone, answers not found.                            *)
(*                                                                         *)
(* ytdl.getInfo returns a promise.  A pending promise is fulfilled by a    *)
(* task, for every pipeline that awaits it; a promise of metadata that a   *)
(* pipeline fetched before is fulfilled without a task in between, and the *)
(* pipeline goes on in the same run of the microtask queue.                *)
(*                                                                         *)
(* The transcoder makes its progress events from the lines of its log.  It *)
(* writes the log from its start until it exits; the end event comes after *)
(* the exit, the error event of a failing input stream may come before.    *)
(*                                                                         *)
(* Nullable fields are modelled as sequences of length 0 or 1: Null is     *)
(* <<>> and a present value v is <<v>>.                                    *)
(***************************************************************************)
EXTENDS Integers, Sequences, FiniteSets, TLC

\* ------------------------------------------------------------------ bounds
\* Number of jobs created in the concurrent specification.
MaxJobs == 2
\* Length of the identifier list of one bulk download request.
MaxIds == 2
\* Latest value of the wall clock.
MaxClock == 1
\* Longest bulk submission tried beyond the accepted maximum.
MaxOver == 1
\* Longest bulk submission of which every combination of URLs is tried.
MaxFree == 2
\* Delete requests that wait for fs.remove at the same time.
MaxDeleting == 2
\* Number of users created.
MaxUsers == 2

\* --------------------------------------------------------- program constants
\* z.array(...).min(1)
MinUrls == 1
\* z.array(...).max(10)
MaxUrls == 10
\* progress written with status "processing"
ProgressAccepted == 5
\* progress written with the title, and lower clamp of the progress callback
ProgressFloor == 15
\* upper clamp of the progress callback
ProgressCeil == 95
\* progress written with status "completed"
ProgressDone == 100

VARIABLES
    users,                \* MemStorage.users: id -> User
    currentUserId,        \* MemStorage.currentUserId
    conversions,          \* MemStorage.conversions: id -> Conversion
    currentConversionId,  \* MemStorage.currentConversionId
    files,                \* names of the files present in DOWNLOADS_DIR
    now,                  \* the wall clock read by new Date() and Date.now()
    pc,                   \* id -> position of processConversion(id)
    loc,                  \* id -> locals of processConversion(id)
    updRes,               \* id -> result of the pipeline's latest updateConversion
    mq,                   \* the queue of continuations of resolved awaits
    del,                  \* the DELETE /api/conversions/:id requests in flight
    zip,                  \* the POST /api/download/bulk request in flight
    bulk,                 \* the POST /api/conversions/bulk request in flight
    dl,                   \* the GET /api/download/:id request in flight
    listening,            \* the jobs whose transcoder has the progress listener
    emitting,             \* the jobs whose transcoder still writes its log
    resp                  \* the HTTP response sent by the latest step, if any

vars == <<users, currentUserId, conversions, currentConversionId, files, now,
          pc, loc, updRes, mq, del, zip, bulk, dl, listening, emitting,
          resp>>

Null == <<>>
Some(v) == <<v>>

\* ------------------------------------------------------------------ inputs
\* Request URLs: two YouTube URLs, a well-formed URL of another site, and a
\* string that is no URL at all.
Urls == {"yt1", "yt2", "web", "bad"}

\* The URLs of single submissions.
SingleUrls == {"yt1", "web", "bad"}

\* z.string().url()
IsUrl(u) == u # "bad"

ValidateURLAnyUrl(u) == IsUrl(u)

\* ytdl.validateURL(url)
ValidateURL(u) == u \in {"yt1", "yt2"}

\* Characters of a video title: a word character, white space, and one that
\* is neither.
RawTitles == { <<"a", "!">>, <<" ", "!", " ">> }

\* Errors thrown by a collaborator: an Error with a message, or another value.
Errors == { [isError |-> TRUE, message |-> "unavailable"],
            [isError |-> FALSE, message |-> ""] }

\* progress.percent of the transcoder, in tenths of a percent; Null stands
\* for a missing value.
Percents == { Null, Some(504), Some(1200) }

\* progress.percent around the rounding steps and the two clamps: missing,
\* negative, zero, 14.4, 14.5, 15.4, 50.4, 50.5, 94.4, 94.5, 95.4, 100, 120.
ProgressInputs ==
    {Null} \cup { Some(t) : t \in {0 - 6, 0, 144, 145, 154, 504, 505, 944, 945,
                                  954, 1000, 1200} }

\* stats.size
Sizes == { 0, 7 }

\* Identifiers a client may name: those of the jobs and one never assigned.
IdInputs == 1..(MaxJobs + 1)

\* InsertUser values.
UserInputs == { [username |-> "ann", password |-> "pw"] }

\* ------------------------------------------------------------- MemStorage
NewConversionProcessing(id, url, t) ==
    [ id |-> id, url |-> url, status |-> "processing", progress |-> 0,
      title |-> Null, filePath |-> Null, fileName |-> Null,
      fileSize |-> Null, errorMessage |-> Null, createdAt |-> Some(t),
      completedAt |-> Null ]

NewConversionZeroId(id, url, t) ==
    [ id |-> 0, url |-> url, status |-> "pending", progress |-> 0,
      title |-> Null, filePath |-> Null, fileName |-> Null,
      fileSize |-> Null, errorMessage |-> Null, createdAt |-> Some(t),
      completedAt |-> Null ]

\* Lines 48-60: the record of a new job.
NewConversion(id, url, t) ==
    [ id |-> id, url |-> url, status |-> "pending", progress |-> 0,
      title |-> Null, filePath |-> Null, fileName |-> Null,
      fileSize |-> Null, errorMessage |-> Null, createdAt |-> Some(t),
      completedAt |-> Null ]

\* getConversion(id): the record or Null
GetConversion(id) ==
    IF id \in DOMAIN conversions THEN Some(conversions[id]) ELSE Null

MergeResetsError(existing, updates) ==
    [ f \in DOMAIN existing \cup DOMAIN updates |->
        IF f \in DOMAIN updates THEN updates[f]
        ELSE IF f = "errorMessage" THEN Null ELSE existing[f] ]

\* { ...existing, ...updates }
Merge(existing, updates) ==
    [ f \in DOMAIN existing \cup DOMAIN updates |->
        IF f \in DOMAIN updates THEN updates[f] ELSE existing[f] ]

UpdateConversionUpsert(id, updates) ==
    [ i \in DOMAIN conversions \cup {id} |->
        IF i # id THEN conversions[i]
        ELSE IF id \in DOMAIN conversions THEN Merge(conversions[id], updates)
        ELSE updates ]

\* updateConversion(id, updates): the store afterwards
UpdateConversion(id, updates) ==
    IF id \in DOMAIN conversions
    THEN [conversions EXCEPT ![id] = Merge(@, updates)]
    ELSE conversions

\* updateConversion(id, updates): what it returns, "ok" for the merged record
UpdateResult(id) ==
    IF id \in DOMAIN conversions THEN "ok" ELSE "absent"

\* (a.createdAt?.getTime() || 0)
CreatedTime(c) == IF c.createdAt = Null THEN 0 ELSE c.createdAt[1]

\* The comparator of getAllConversions: negative, zero or positive.
Compare(a, b) == CreatedTime(b) - CreatedTime(a)

\* Array.from(this.conversions.values()): a Map iterates in insertion order,
\* and the keys of this Map were inserted in increasing order.
RECURSIVE Values(_)
Values(S) ==
    IF S = {} THEN <<>>
    ELSE LET m == CHOOSE x \in S : \A y \in S : x <= y
         IN <<conversions[m]>> \o Values(S \ {m})

\* Array.prototype.sort is stable: c goes behind the elements that do not
\* compare greater than it.
RECURSIVE InsertSorted(_, _)
InsertSorted(s, c) ==
    IF s = <<>> THEN <<c>>
    ELSE IF Compare(s[Len(s)], c) <= 0 THEN Append(s, c)
    ELSE Append(InsertSorted(SubSeq(s, 1, Len(s) - 1), c), s[Len(s)])

RECURSIVE SortStable(_)
SortStable(s) ==
    IF s = <<>> THEN <<>>
    ELSE InsertSorted(SortStable(SubSeq(s, 1, Len(s) - 1)), s[Len(s)])

\* getAllConversions(), lines 69-73
GetAllConversions == SortStable(Values(DOMAIN conversions))

\* The values of the status column.
Statuses == {"pending", "processing", "completed", "failed"}

RECURSIVE WithStatus(_, _)
WithStatus(s, status) ==
    IF s = <<>> THEN <<>>
    ELSE IF Head(s).status = status
         THEN <<Head(s)>> \o WithStatus(Tail(s), status)
         ELSE WithStatus(Tail(s), status)

\* getConversionsByStatus(status), lines 88-92
GetConversionsByStatus(status) == WithStatus(Values(DOMAIN conversions), status)

\* updateConversion(id, updates): what it returns, the merged record or Null
UpdateReturn(id, updates) ==
    IF id \in DOMAIN conversions
    THEN Some(Merge(conversions[id], updates))
    ELSE Null

\* deleteConversion(id): the store afterwards
DeleteConversion(id) ==
    [ i \in DOMAIN conversions \ {id} |-> conversions[i] ]

DeleteResultAlways(id) == TRUE

\* deleteConversion(id): what it returns
DeleteResult(id) == id \in DOMAIN conversions

\* ------------------------------------------------------- processConversion
\* title.replace(/[^\w\s-]/g, "")
RECURSIVE StripUnsafe(_)
StripUnsafe(s) ==
    IF s = <<>> THEN <<>>
    ELSE IF Head(s) \in {"a", " ", "-"}
         THEN <<Head(s)>> \o StripUnsafe(Tail(s))
         ELSE StripUnsafe(Tail(s))

\* .trim()
RECURSIVE TrimLeft(_)
TrimLeft(s) ==
    IF s # <<>> /\ Head(s) = " " THEN TrimLeft(Tail(s)) ELSE s

RECURSIVE TrimRight(_)
TrimRight(s) ==
    IF s # <<>> /\ s[Len(s)] = " " THEN TrimRight(SubSeq(s, 1, Len(s) - 1)) ELSE s

Sanitize(raw) == TrimRight(TrimLeft(StripUnsafe(raw)))

\* `${title}_${conversionId}.mp3`
FileNameOf(title, id) == [title |-> title, id |-> id, ext |-> "mp3"]

FilePathOfNonceOnly(id, t) == [id |-> 0, nonce |-> t, ext |-> "mp3"]

\* `${conversionId}_${Date.now()}.mp3`: the two numbers are kept apart by the
\* underscore, so the name is kept as the pair it is formatted from.
FilePathOf(id, t) == [id |-> id, nonce |-> t, ext |-> "mp3"]

\* Math.round(x) for x in tenths: floor(x + 0.5)
Round(tenths) == (tenths + 5) \div 10

Min(a, b) == IF a < b THEN a ELSE b
Max(a, b) == IF a > b THEN a ELSE b

PercentageTruncates(p) ==
    Min(Max((IF p = Null THEN 0 ELSE p[1]) \div 10, ProgressFloor), ProgressCeil)

\* Math.min(Math.max(Math.round(progress.percent || 0), 15), 95)
Percentage(p) ==
    Min(Max(Round(IF p = Null THEN 0 ELSE p[1]), ProgressFloor), ProgressCeil)

\* error instanceof Error ? error.message : "Unknown error occurred"
ErrorMessage(e) == IF e.isError THEN e.message ELSE "Unknown error occurred"

\* Lines 295-298
ProcessingPatch == [status |-> "processing", progress |-> ProgressAccepted]

TitlePatchKeepsProgress(title) == [title |-> Some(title)]

\* Lines 304-307
TitlePatch(title) == [title |-> Some(title), progress |-> ProgressFloor]

ProgressPatchClearsTitle(p) == [progress |-> Percentage(p), title |-> Null]

\* Line 326
ProgressPatch(p) == [progress |-> Percentage(p)]

CompletedPatchNoSize(filePath, fileName, fileSize, t) ==
    [ status |-> "completed", progress |-> ProgressDone,
      filePath |-> Some(filePath), fileName |-> Some(fileName),
      completedAt |-> Some(t) ]

CompletedPatch(filePath, fileName, fileSize, t) ==
    [ status |-> "completed", progress |-> ProgressDone,
      filePath |-> Some(filePath), fileName |-> Some(fileName),
      fileSize |-> Some(fileSize), completedAt |-> Some(t) ]

FailedPatchNoDetail(e) == [status |-> "failed"]

FailedPatchKeepsStatus(e) == [errorMessage |-> Some(ErrorMessage(e))]

FailedPatch(e) == [status |-> "failed", errorMessage |-> Some(ErrorMessage(e))]

NoLocals == [title |-> Null, filePath |-> Null]



\* ----------------------------------------------------------- the event loop
\* Continuations waiting in the microtask queue: processConversion(j) after
\* its awaits of getConversion (line 290) and of the updateConversion of
\* lines 295 and 304, and the bulk handler after its await of
\* createConversion (line 163).
MicroProc(j) == [k |-> "proc", id |-> j]
MicroBulk == [k |-> "bulk", id |-> 0]

\* processConversion(j) after its await of ytdl.getInfo (line 301), queued
\* when the promise it awaits is fulfilled with the metadata raw.
MicroInfo(j, raw) == [k |-> "info", id |-> j, raw |-> raw]

\* A task may start.
TaskMayStart == mq = <<>>

\* The continuation at the head of the queue.
IsNext(m) == mq # <<>> /\ Head(mq) = m

\* A response: the route, the status code, the request it answers and what
\* it carries.
NoResp == [op |-> "none", code |-> 0, req |-> <<>>, body |-> <<>>]

Response(op, code, req, body) ==
    [op |-> op, code |-> code, req |-> req, body |-> body]

\* new Date() / Date.now() may have advanced.
Tick ==
    /\ now < MaxClock
    /\ now' = now + 1
    /\ resp' = NoResp
    /\ UNCHANGED <<conversions, currentConversionId, files, pc, loc, updRes,
                   mq, del, zip, bulk>>
    /\ UNCHANGED <<users, currentUserId, dl, listening, emitting>>

\* ------------------------------------------------------- processConversion
PipelineUpdateAll(j, patch) ==
    /\ conversions' = [ k \in DOMAIN conversions |-> Merge(conversions[k], patch) ]
    /\ updRes' = [updRes EXCEPT ![j] = UpdateResult(j)]

\* One updateConversion issued by the pipeline of job j.
PipelineUpdate(j, patch) ==
    /\ conversions' = UpdateConversion(j, patch)
    /\ updRes' = [updRes EXCEPT ![j] = UpdateResult(j)]

CatchSwallows(j, e) ==
    /\ pc' = [pc EXCEPT ![j] = "done"]
    /\ loc' = [loc EXCEPT ![j] = NoLocals]
    /\ UNCHANGED <<conversions, updRes>>

\* The catch block (lines 347-353): the failed write ends the pipeline.
Catch(j, e) ==
    /\ PipelineUpdate(j, FailedPatch(e))
    /\ pc' = [pc EXCEPT ![j] = "done"]
    /\ loc' = [loc EXCEPT ![j] = NoLocals]

\* Lines 290-291, the position of processConversion(id) after it was called:
\* it read the record and returns at once when there is none.
Entered(id, store) == IF id \in DOMAIN store THEN "entered" ELSE "done"

\* Lines 293-298: status "processing" is written; the pipeline waits for the
\* promise of updateConversion, behind the continuations already queued.
ProcProcessing(j) ==
    /\ IsNext(MicroProc(j))
    /\ pc[j] = "entered"
    /\ PipelineUpdate(j, ProcessingPatch)
    /\ pc' = [pc EXCEPT ![j] = "accepted"]
    /\ mq' = Tail(mq) \o <<MicroProc(j)>>
    /\ resp' = NoResp
    /\ UNCHANGED <<currentConversionId, files, now, loc, del, zip, bulk>>
    /\ UNCHANGED <<users, currentUserId, dl, listening, emitting>>

\* A pipeline has fetched the metadata raw.
FetchedBefore(raw) ==
    \E k \in DOMAIN loc : loc[k].title = Some(Sanitize(raw))

\* Line 301: the continuation after the await of line 295 runs and calls
\* ytdl.getInfo.  The promise it gets is pending (cached is Null), or the
\* video is one whose metadata a pipeline has fetched before and the library
\* has kept: the promise is fulfilled with it (Some(raw)) without a task in
\* between, and the continuation behind the await is queued.
ProcGetInfo(j, cached) ==
    /\ IsNext(MicroProc(j))
    /\ pc[j] = "accepted"
    /\ cached # Null => FetchedBefore(cached[1])
    /\ pc' = [pc EXCEPT ![j] = "info"]
    /\ mq' = IF cached = Null THEN Tail(mq)
             ELSE Append(Tail(mq), MicroInfo(j, cached[1]))
    /\ resp' = NoResp
    /\ UNCHANGED <<conversions, currentConversionId, files, now, loc, updRes,
                   del, zip, bulk>>
    /\ UNCHANGED <<users, currentUserId, dl, listening, emitting>>

\* The continuations of the pipelines in S behind a promise fulfilled with
\* raw, in the order in which they awaited it: the order of their ids.
RECURSIVE Reactions(_, _)
Reactions(S, raw) ==
    IF S = {} THEN <<>>
    ELSE LET m == CHOOSE x \in S : \A y \in S : x <= y
         IN <<MicroInfo(m, raw)>> \o Reactions(S \ {m}, raw)

\* Line 301, inside ytdl.getInfo: a pending promise is fulfilled with the
\* metadata raw.  S is the set of the pipelines that await this promise:
\* one, or several whose URLs name the same video.  Their continuations are
\* queued.
GetInfoResolves(S, raw) ==
    /\ TaskMayStart
    /\ S # {}
    /\ S \subseteq DOMAIN pc
    /\ \A j \in S : pc[j] = "info"
    /\ mq' = Reactions(S, raw)
    /\ resp' = NoResp
    /\ UNCHANGED <<conversions, currentConversionId, files, now, pc, loc, updRes,
                   del, zip, bulk>>
    /\ UNCHANGED <<users, currentUserId, dl, listening, emitting>>

\* Line 301, inside ytdl.getInfo: a promise of metadata fetched before takes
\* one more turn of the queue before the continuation of the pipeline runs;
\* how many turns it takes is the library's.
ProcInfoTurn(j, raw) ==
    /\ IsNext(MicroInfo(j, raw))
    /\ Len(mq) > 1
    /\ mq' = Append(Tail(mq), MicroInfo(j, raw))
    /\ resp' = NoResp
    /\ UNCHANGED <<conversions, currentConversionId, files, now, pc, loc, updRes,
                   del, zip, bulk>>
    /\ UNCHANGED <<users, currentUserId, dl, listening, emitting>>

\* Lines 301-307: the continuation after the await of line 301 runs with the
\* metadata; title and progress are written, and the pipeline waits for the
\* promise of updateConversion, behind the continuations already queued.
ProcInfoOk(j, raw) ==
    /\ IsNext(MicroInfo(j, raw))
    /\ pc[j] = "info"
    /\ PipelineUpdate(j, TitlePatch(Sanitize(raw)))
    /\ loc' = [loc EXCEPT ![j].title = Some(Sanitize(raw))]
    /\ pc' = [pc EXCEPT ![j] = "titled"]
    /\ mq' = Append(Tail(mq), MicroProc(j))
    /\ resp' = NoResp
    /\ UNCHANGED <<currentConversionId, files, now, del, zip, bulk>>
    /\ UNCHANGED <<users, currentUserId, dl, listening, emitting>>

\* Lines 309-330: the continuation after the await of line 304 runs; the
\* names are derived, the listeners are registered and the transcoder is
\* started: from now on it writes its log, from which the progress events
\* are made.
ProcTranscodeStart(j) ==
    /\ IsNext(MicroProc(j))
    /\ pc[j] = "titled"
    /\ loc' = [loc EXCEPT ![j].filePath = Some(FilePathOf(j, now))]
    /\ pc' = [pc EXCEPT ![j] = "transcode"]
    /\ mq' = Tail(mq)
    /\ listening' = listening \cup {j}
    /\ emitting' = emitting \cup {j}
    /\ resp' = NoResp
    /\ UNCHANGED <<conversions, currentConversionId, files, now, updRes, del,
                   zip, bulk>>
    /\ UNCHANGED <<users, currentUserId, dl>>

\* Line 301 throws: the promise of ytdl.getInfo is rejected, the metadata
\* fetch failed.
ProcInfoFail(j, e) ==
    /\ TaskMayStart
    /\ pc[j] = "info"
    /\ Catch(j, e)
    /\ resp' = NoResp
    /\ UNCHANGED <<currentConversionId, files, now, mq, del, zip, bulk>>
    /\ UNCHANGED <<users, currentUserId, dl, listening, emitting>>

\* Lines 324-327: the progress listener of the transcoder of job j is called
\* with a progress event, made from a line of the log of the transcoder.  It
\* writes whenever it is called: nothing in the handler tests whether the
\* pipeline has gone on or failed.
ProcProgress(j, p) ==
    /\ TaskMayStart
    /\ j \in listening
    /\ j \in emitting
    /\ PipelineUpdate(j, ProgressPatch(p))
    /\ resp' = NoResp
    /\ UNCHANGED <<currentConversionId, files, now, pc, loc, mq, del, zip, bulk>>
    /\ UNCHANGED <<users, currentUserId, dl, listening, emitting>>

\* Lines 328-334: the transcoder ended, its output file is complete, and the
\* size query is started.  The end event comes when the transcoder has
\* exited and its log is closed.
ProcTranscodeEnd(j) ==
    /\ TaskMayStart
    /\ pc[j] = "transcode"
    /\ files' = files \cup {loc[j].filePath[1]}
    /\ pc' = [pc EXCEPT ![j] = "stat"]
    /\ emitting' = emitting \ {j}
    /\ resp' = NoResp
    /\ UNCHANGED <<conversions, currentConversionId, now, loc, updRes, mq,
                   del, zip, bulk>>
    /\ UNCHANGED <<users, currentUserId, dl, listening>>

\* Line 329: the stream fetch or the transcoder failed; a partial output
\* file may be left behind.  After a failure of the stream the transcoder
\* may still be writing its log.
ProcTranscodeError(j, e, partial) ==
    /\ TaskMayStart
    /\ pc[j] = "transcode"
    /\ files' = IF partial THEN files \cup {loc[j].filePath[1]} ELSE files
    /\ Catch(j, e)
    /\ resp' = NoResp
    /\ UNCHANGED <<currentConversionId, now, mq, del, zip, bulk>>
    /\ UNCHANGED <<users, currentUserId, dl, listening, emitting>>

\* Lines 334-345: the size arrived and the job is written as completed.
ProcStatOk(j, size) ==
    /\ TaskMayStart
    /\ pc[j] = "stat"
    /\ PipelineUpdate(j, CompletedPatch(loc[j].filePath[1],
                                        FileNameOf(loc[j].title[1], j), size, now))
    /\ pc' = [pc EXCEPT ![j] = "done"]
    /\ loc' = [loc EXCEPT ![j] = NoLocals]
    /\ resp' = NoResp
    /\ UNCHANGED <<currentConversionId, files, now, mq, del, zip, bulk>>
    /\ UNCHANGED <<users, currentUserId, dl, listening, emitting>>

\* Line 334 throws: the size query failed.
ProcStatFail(j, e) ==
    /\ TaskMayStart
    /\ pc[j] = "stat"
    /\ Catch(j, e)
    /\ resp' = NoResp
    /\ UNCHANGED <<currentConversionId, files, now, mq, del, zip, bulk>>
    /\ UNCHANGED <<users, currentUserId, dl, listening, emitting>>

\* -------------------------------------------------------- job creation
\* createConversion(insertConversion): the store afterwards.
CreateConversion(url) ==
    [ i \in DOMAIN conversions \cup {currentConversionId} |->
        IF i = currentConversionId
        THEN NewConversion(currentConversionId, url, now)
        ELSE conversions[i] ]

\* The pipeline state of a new job: "created" until processConversion is
\* called for it.
AddJob(f, id, v) == [ i \in DOMAIN f \cup {id} |-> IF i = id THEN v ELSE f[i] ]

\* POST /api/conversions (lines 130-149): the request is rejected, or the job
\* is created, its pipeline is called and the created record is sent.
CreateSingle(url) ==
    /\ TaskMayStart
    /\ currentConversionId <= MaxJobs
    /\ IF ValidateURL(url)
       THEN LET id == currentConversionId
            IN /\ conversions' = CreateConversion(url)
               /\ currentConversionId' = id + 1
               /\ pc' = AddJob(pc, id, Entered(id, CreateConversion(url)))
               /\ loc' = AddJob(loc, id, NoLocals)
               /\ updRes' = AddJob(updRes, id, "none")
               /\ mq' = <<MicroProc(id)>>
               /\ resp' = Response("create", 200, <<url>>,
                                   <<NewConversion(id, url, now)>>)
       ELSE /\ resp' = Response("create", 400, <<url>>, <<>>)
            /\ UNCHANGED <<conversions, currentConversionId, pc, loc, updRes, mq>>
    /\ UNCHANGED <<files, now, del, zip, bulk>>
    /\ UNCHANGED <<users, currentUserId, dl, listening, emitting>>

\* --------------------------------------------- DELETE /api/conversions/:id
\* del holds the requests that wait for fs.remove: for an id, the path they
\* read from the record, the calls the file system has not performed yet
\* (called), and the calls it has performed whose continuation has not run:
\* those that succeeded (removed) and those that failed (kept).
RECURSIVE Waiting(_, _)
Waiting(d, S) ==
    IF S = {} THEN 0
    ELSE LET id == CHOOSE x \in S : TRUE
         IN d[id].called + d[id].removed + d[id].kept + Waiting(d, S \ {id})

\* One continuation behind fs.remove has run.
Settle(d, id, ok) ==
    LET e == IF ok THEN [d[id] EXCEPT !.removed = @ - 1]
                   ELSE [d[id] EXCEPT !.kept = @ - 1]
    IN IF e.called + e.removed + e.kept = 0
       THEN [ i \in DOMAIN d \ {id} |-> d[i] ]
       ELSE [d EXCEPT ![id] = e]

\* The promise of fs.remove of a request for id is settled with outcome ok.
Settled(id, ok) ==
    /\ id \in DOMAIN del
    /\ IF ok THEN del[id].removed > 0 ELSE del[id].kept > 0

\* Lines 271-277: the status of the response.
DeleteCode(deleted) == IF deleted THEN 200 ELSE 404

\* Lines 263-277: the record is read.  When it names a file the removal of
\* the file is started; otherwise the record is removed and the outcome is
\* sent.
DelStart(id) ==
    /\ TaskMayStart
    /\ LET conversion == GetConversion(id)
       IN IF conversion # Null /\ conversion[1].filePath # Null
          THEN /\ Waiting(del, DOMAIN del) < MaxDeleting
               /\ del' = IF id \in DOMAIN del
                         THEN [del EXCEPT ![id].called = @ + 1]
                         ELSE AddJob(del, id, [path |-> conversion[1].filePath[1],
                                               called |-> 1, removed |-> 0,
                                               kept |-> 0])
               /\ resp' = NoResp
               /\ UNCHANGED conversions
          ELSE /\ conversions' = DeleteConversion(id)
               /\ resp' = Response("delete", DeleteCode(DeleteResult(id)),
                                   <<id>>, <<>>)
               /\ UNCHANGED del
    /\ UNCHANGED <<currentConversionId, files, now, pc, loc, updRes, mq, zip, bulk>>
    /\ UNCHANGED <<users, currentUserId, dl, listening, emitting>>

\* Line 268, inside fs.remove: the file system performs one call for the
\* file of job id.  It takes the file out of the directory (a file that is
\* not there is no failure), or it fails and leaves the file.  This happens
\* while the request waits, whatever the event loop is running.
FsRemove(id, ok) ==
    /\ id \in DOMAIN del
    /\ del[id].called > 0
    /\ files' = IF ok THEN files \ {del[id].path} ELSE files
    /\ del' = IF ok
              THEN [del EXCEPT ![id].called = @ - 1, ![id].removed = @ + 1]
              ELSE [del EXCEPT ![id].called = @ - 1, ![id].kept = @ + 1]
    /\ resp' = NoResp
    /\ UNCHANGED <<conversions, currentConversionId, now, pc, loc, updRes, mq,
                   zip, bulk>>
    /\ UNCHANGED <<users, currentUserId, dl, listening, emitting>>

DelRemovedPropagates(id, ok) ==
    /\ TaskMayStart
    /\ Settled(id, ok)
    /\ conversions' = IF ok THEN DeleteConversion(id) ELSE conversions
    /\ resp' = IF ok
               THEN Response("delete", DeleteCode(DeleteResult(id)), <<id>>, <<>>)
               ELSE Response("delete", 500, <<id>>, <<>>)
    /\ del' = Settle(del, id, ok)
    /\ UNCHANGED <<currentConversionId, files, now, pc, loc, updRes, mq, zip,
                   bulk>>
    /\ UNCHANGED <<users, currentUserId, dl, listening, emitting>>

\* Lines 268-277: the continuation behind fs.remove runs for one request
\* whose promise is settled (a failure is swallowed); the record is removed
\* and the outcome is sent.
DelRemoved(id, ok) ==
    /\ TaskMayStart
    /\ Settled(id, ok)
    /\ conversions' = DeleteConversion(id)
    /\ resp' = Response("delete", DeleteCode(DeleteResult(id)), <<id>>, <<>>)
    /\ del' = Settle(del, id, ok)
    /\ UNCHANGED <<currentConversionId, files, now, pc, loc, updRes, mq, zip,
                   bulk>>
    /\ UNCHANGED <<users, currentUserId, dl, listening, emitting>>

\* ------------------------------------------------- POST /api/download/bulk
\* The request bodies: ids is missing (Null) or a list of identifiers.
IdLists == UNION { [1..n -> IdInputs] : n \in 0..MaxIds }
ZipBodies == {Null} \cup { Some(ids) : ids \in IdLists }

\* queue holds the files handed to the archiver that it has not taken up
\* yet, entries the entries of the archive, and failed tells whether the
\* archiver has failed.
ZipIdle ==
    [pc |-> "idle", ids |-> <<>>, valid |-> <<>>, i |-> 0, queue |-> <<>>,
     entries |-> <<>>, failed |-> FALSE, exists |-> Null]

\* Line 222: !Array.isArray(ids) || ids.length === 0
IsBadIdList(body) == body = Null \/ Len(body[1]) = 0

IsValidConversionAnyStatus(conv) == conv # Null

\* Line 231: conv !== undefined && conv.status === "completed" &&
\* conv.filePath !== null
IsValidConversion(conv) ==
    conv # Null /\ conv[1].status = "completed" /\ conv[1].filePath # Null

\* Lines 226-232: the records of the ids, read at once, without those that
\* are not valid.  An element keeps the position of its id in the request.
RECURSIVE ValidFrom(_, _)
ValidFrom(ids, k) ==
    IF k > Len(ids) THEN <<>>
    ELSE LET conv == GetConversion(ids[k])
         IN IF IsValidConversion(conv)
            THEN <<[pos |-> k, filePath |-> conv[1].filePath,
                    fileName |-> conv[1].fileName]>> \o ValidFrom(ids, k + 1)
            ELSE ValidFrom(ids, k + 1)

ValidConversions(ids) == ValidFrom(ids, 1)

\* "audio.mp3"
AudioMp3 == [title |-> <<"audio">>, id |-> 0, ext |-> "mp3"]

\* Line 248: conversion.fileName || "audio.mp3"
EntryName(fileName) == IF fileName # Null THEN fileName[1] ELSE AudioMp3

AddEntryFront(entries, v, exists) ==
    IF v.filePath # Null /\ exists
    THEN <<[pos |-> v.pos, name |-> EntryName(v.fileName),
            path |-> v.filePath[1]]>> \o entries
    ELSE entries

\* Lines 245-249: archive.file(...) is called when fs.pathExists answered
\* that the file of a valid record exists; the file is handed to the
\* archiver, behind the files handed to it before.
AddEntry(entries, v, exists) ==
    IF v.filePath # Null /\ exists
    THEN Append(entries, [pos |-> v.pos, name |-> EntryName(v.fileName),
                          path |-> v.filePath[1]])
    ELSE entries

\* Line 234: validConversions.length === 0
NoValidFilesNever(valid) == FALSE
NoValidFiles(valid) == Len(valid) = 0

\* Lines 220-247: the request is rejected (400, 404), or the archive is
\* opened and the existence of the first valid file is queried.
ZipStart(body) ==
    /\ TaskMayStart
    /\ zip.pc = "idle"
    /\ IF IsBadIdList(body)
       THEN /\ resp' = Response("zip", 400, body, <<>>)
            /\ UNCHANGED zip
       ELSE IF NoValidFiles(ValidConversions(body[1]))
       THEN /\ resp' = Response("zip", 404, body, <<>>)
            /\ UNCHANGED zip
       ELSE /\ zip' = [pc |-> IF ValidConversions(body[1]) = <<>>
                              THEN "finalize" ELSE "loop",
                       ids |-> body[1],
                       valid |-> ValidConversions(body[1]), i |-> 1,
                       queue |-> <<>>, entries |-> <<>>, failed |-> FALSE,
                       exists |-> Null]
            /\ resp' = NoResp
    /\ UNCHANGED <<conversions, currentConversionId, files, now, pc, loc,
                   updRes, mq, del, bulk>>
    /\ UNCHANGED <<users, currentUserId, dl, listening, emitting>>

\* Line 247, inside fs.pathExists: the file system tests the file of the
\* i-th valid record.  This happens while the request waits, whatever the
\* event loop is running.
ZipPathExists ==
    /\ zip.pc = "loop"
    /\ zip.exists = Null
    /\ zip' = [zip EXCEPT !.exists = Some(zip.valid[zip.i].filePath[1] \in files)]
    /\ resp' = NoResp
    /\ UNCHANGED <<conversions, currentConversionId, files, now, pc, loc,
                   updRes, mq, del, bulk>>
    /\ UNCHANGED <<users, currentUserId, dl, listening, emitting>>

\* Lines 247-253: the answer of fs.pathExists is delivered for the i-th valid
\* record; archive.file is called when the answer is that the file exists,
\* and the loop goes on or archive.finalize is called.
ZipStep ==
    /\ TaskMayStart
    /\ zip.pc = "loop"
    /\ zip.exists # Null
    /\ LET v == zip.valid[zip.i]
       IN zip' = [zip EXCEPT
                    !.queue = AddEntry(@, v, zip.exists[1]),
                    !.exists = Null,
                    !.i = @ + 1,
                    !.pc = IF zip.i = Len(zip.valid) THEN "finalize" ELSE "loop"]
    /\ resp' = NoResp
    /\ UNCHANGED <<conversions, currentConversionId, files, now, pc, loc,
                   updRes, mq, del, bulk>>
    /\ UNCHANGED <<users, currentUserId, dl, listening, emitting>>

\* Line 248, inside the archiver: it takes up the oldest file handed to it
\* by archive.file.  A file that is missing is passed over with a warning;
\* a file that is there is read and becomes the next entry of the archive
\* (ok), or reading it fails and with it the archive.  This happens while
\* the request goes on, whatever the event loop is running.
ArchiveFile(ok) ==
    /\ zip.queue # <<>>
    /\ ok \/ Head(zip.queue).path \in files
    /\ LET f == Head(zip.queue)
       IN zip' = [zip EXCEPT
                    !.queue = Tail(@),
                    !.entries = IF f.path \in files /\ ok THEN Append(@, f) ELSE @,
                    !.failed = @ \/ (f.path \in files /\ ~ok)]
    /\ resp' = NoResp
    /\ UNCHANGED <<conversions, currentConversionId, files, now, pc, loc,
                   updRes, mq, del, bulk>>
    /\ UNCHANGED <<users, currentUserId, dl, listening, emitting>>

\* Lines 253-257: the promise of archive.finalize() is settled when the
\* archiver has taken up every file handed to it.  It is resolved and the
\* archive has been streamed, or it is rejected because the archiver failed
\* and the catch answers 500.
ZipEnd ==
    /\ TaskMayStart
    /\ zip.pc = "finalize"
    /\ zip.queue = <<>>
    /\ resp' = IF zip.failed
               THEN Response("zip", 500, Some(zip.ids), <<>>)
               ELSE Response("zip", 200, Some(zip.ids), zip.entries)
    /\ zip' = ZipIdle
    /\ UNCHANGED <<conversions, currentConversionId, files, now, pc, loc,
                   updRes, mq, del, bulk>>
    /\ UNCHANGED <<users, currentUserId, dl, listening, emitting>>

\* ----------------------------------------------- POST /api/conversions/bulk
BulkIdle == [pc |-> "idle", urls |-> <<>>, i |-> 0, out |-> <<>>,
             before |-> [ids |-> {}, next |-> 0]]

\* A batch of n URLs: YouTube URLs, but for the URL u at position k.
Batch(n, k, u) ==
    [ p \in 1..n |-> IF p = k THEN u
                     ELSE IF p % 2 = 1 THEN "yt1" ELSE "yt2" ]

\* The request bodies: every batch of at most MaxFree URLs, and the longer
\* batches with at most one URL that is not a YouTube URL.
BulkBodies ==
    UNION { [1..n -> Urls] : n \in 0..MaxFree }
    \cup { Batch(n, k, u) : n \in 0..(MaxUrls + MaxOver),
                            k \in 0..(MaxUrls + MaxOver), u \in {"web", "bad"} }

BulkSchemaOkOffByOne(urls) ==
    /\ Len(urls) >= MinUrls
    /\ Len(urls) <= MaxUrls + 1
    /\ \A p \in 1..Len(urls) : IsUrl(urls[p])

\* bulkConversionSchema.parse: z.array(z.string().url()).min(1).max(10)
BulkSchemaOk(urls) ==
    /\ Len(urls) >= MinUrls
    /\ Len(urls) <= MaxUrls
    /\ \A p \in 1..Len(urls) : IsUrl(urls[p])

\* Lines 157-163, one pass of the loop up to its await: the URL at position
\* p is validated; the request is rejected, or the job is created.
BulkVisit(urls, p, out, before) ==
    IF ~ValidateURL(urls[p])
    THEN /\ resp' = Response("bulk", 400, urls, <<>>)
         /\ bulk' = BulkIdle
         /\ UNCHANGED <<conversions, currentConversionId>>
    ELSE /\ conversions' = CreateConversion(urls[p])
         /\ currentConversionId' = currentConversionId + 1
         /\ bulk' = [pc |-> "run", urls |-> urls, i |-> p, out |-> out,
                     before |-> before]
         /\ resp' = NoResp

\* Lines 153-163: the body is parsed; the request is rejected, or the loop
\* runs up to its first await.
BulkStart(urls) ==
    /\ TaskMayStart
    /\ bulk.pc = "idle"
    /\ currentConversionId <= MaxJobs
    /\ IF ~BulkSchemaOk(urls)
       THEN /\ resp' = Response("bulk", 400, urls, <<>>)
            /\ UNCHANGED <<conversions, currentConversionId, bulk, mq, pc, loc, updRes>>
       ELSE /\ BulkVisit(urls, 1, <<>>,
                         [ids |-> DOMAIN conversions, next |-> currentConversionId])
            /\ mq' = IF ValidateURL(urls[1]) THEN <<MicroBulk>> ELSE mq
            /\ IF ValidateURL(urls[1])
               THEN /\ pc' = AddJob(pc, currentConversionId, "created")
                    /\ loc' = AddJob(loc, currentConversionId, NoLocals)
                    /\ updRes' = AddJob(updRes, currentConversionId, "none")
               ELSE UNCHANGED <<pc, loc, updRes>>
    /\ UNCHANGED <<files, now, del, zip>>
    /\ UNCHANGED <<users, currentUserId, dl, listening, emitting>>

\* Lines 163-170, the handler after its await: the created record is kept,
\* its pipeline is called, and the loop goes on to the next URL or the
\* created records are sent.
BulkResume ==
    /\ IsNext(MicroBulk)
    /\ bulk.pc = "run"
    /\ LET id == currentConversionId - 1
           out == Append(bulk.out, NewConversion(id, bulk.urls[bulk.i],
                                                 conversions[id].createdAt[1]))
           started == [pc EXCEPT ![id] = Entered(id, conversions)]
       IN IF bulk.i = Len(bulk.urls)
          THEN /\ resp' = Response("bulk", 200, bulk.urls, out)
               /\ bulk' = BulkIdle
               /\ pc' = started
               /\ mq' = Tail(mq) \o <<MicroProc(id)>>
               /\ UNCHANGED <<conversions, currentConversionId, loc, updRes>>
          ELSE /\ BulkVisit(bulk.urls, bulk.i + 1, out, bulk.before)
               /\ IF ValidateURL(bulk.urls[bulk.i + 1])
                  THEN /\ pc' = AddJob(started, currentConversionId, "created")
                       /\ loc' = AddJob(loc, currentConversionId, NoLocals)
                       /\ updRes' = AddJob(updRes, currentConversionId, "none")
                       /\ mq' = Tail(mq) \o <<MicroProc(id), MicroBulk>>
                  ELSE /\ pc' = started
                       /\ mq' = Tail(mq) \o <<MicroProc(id)>>
                       /\ UNCHANGED <<loc, updRes>>
    /\ UNCHANGED <<files, now, del, zip>>
    /\ UNCHANGED <<users, currentUserId, dl, listening, emitting>>

\* ------------------------------------------------------ GET /api/conversions
\* Lines 119-127: the jobs are sent as getAllConversions returns them.
List ==
    /\ TaskMayStart
    /\ resp' = Response("list", 200, <<>>, GetAllConversions)
    /\ UNCHANGED <<users, currentUserId, conversions, currentConversionId,
                   files, now, pc, loc, updRes, mq, del, zip, bulk, dl, listening, emitting>>

\* -------------------------------------------------- GET /api/conversions/:id
\* Lines 178-192: the record is sent, or 404 when there is none.
GetOne(id) ==
    /\ TaskMayStart
    /\ resp' = IF GetConversion(id) = Null
               THEN Response("get", 404, <<id>>, Null)
               ELSE Response("get", 200, <<id>>, GetConversion(id))
    /\ UNCHANGED <<users, currentUserId, conversions, currentConversionId,
                   files, now, pc, loc, updRes, mq, del, zip, bulk, dl, listening, emitting>>

\* ----------------------------------------------------- GET /api/download/:id
\* Lines 201 and 207: the bodies of the two 404 responses.
NotCompleted == [message |-> "File not found or conversion not completed"]
NoLongerExists == [message |-> "File no longer exists"]

\* Line 200: !conversion || conversion.status !== "completed" ||
\* !conversion.filePath
IsNotDownloadable(conversion) ==
    \/ conversion = Null
    \/ conversion[1].status # "completed"
    \/ conversion[1].filePath = Null

\* Lines 197-206: the record is read; the request is answered 404, or the
\* existence of the file is queried.
DlStart(id) ==
    /\ TaskMayStart
    /\ dl = Null
    /\ IF IsNotDownloadable(GetConversion(id))
       THEN /\ resp' = Response("download", 404, <<id>>, <<NotCompleted>>)
            /\ UNCHANGED dl
       ELSE /\ dl' = Some([id |-> id, path |-> conversions[id].filePath[1],
                           name |-> EntryName(conversions[id].fileName),
                           exists |-> Null, pc |-> "pathExists"])
            /\ resp' = NoResp
    /\ UNCHANGED <<users, currentUserId, conversions, currentConversionId,
                   files, now, pc, loc, updRes, mq, del, zip, bulk,
                   listening, emitting>>

\* Line 206, inside fs.pathExists: the file system tests the file.  This
\* happens while the request waits, whatever the event loop is running.
DlPathExists ==
    /\ dl # Null
    /\ dl[1].pc = "pathExists"
    /\ dl[1].exists = Null
    /\ dl' = Some([dl[1] EXCEPT !.exists = Some(dl[1].path \in files)])
    /\ resp' = NoResp
    /\ UNCHANGED <<users, currentUserId, conversions, currentConversionId,
                   files, now, pc, loc, updRes, mq, del, zip, bulk,
                   listening, emitting>>

\* Lines 206-210: the answer of fs.pathExists is delivered; res.download is
\* called with the file and the display name, or the request is answered
\* 404.
DlExists ==
    /\ TaskMayStart
    /\ dl # Null
    /\ dl[1].pc = "pathExists"
    /\ dl[1].exists # Null
    /\ IF dl[1].exists[1]
       THEN /\ dl' = Some([dl[1] EXCEPT !.pc = "download"])
            /\ resp' = NoResp
       ELSE /\ dl' = Null
            /\ resp' = Response("download", 404, <<dl[1].id>>, <<NoLongerExists>>)
    /\ UNCHANGED <<users, currentUserId, conversions, currentConversionId,
                   files, now, pc, loc, updRes, mq, del, zip, bulk,
                   listening, emitting>>

ResDownloadUnchecked ==
    /\ dl # Null
    /\ dl[1].pc = "download"
    /\ resp' = Response("download", 200, <<dl[1].id>>,
                        <<[path |-> dl[1].path, name |-> dl[1].name]>>)
    /\ dl' = Null
    /\ UNCHANGED <<users, currentUserId, conversions, currentConversionId,
                   files, now, pc, loc, updRes, mq, del, zip, bulk,
                   listening, emitting>>

\* Line 210, inside res.download: the file is looked up to be sent.  It is
\* there and is sent under the display name, or it is missing and the
\* request is answered not found, with the body of the error handler of the
\* application.  This happens after the handler has returned, whatever the
\* event loop is running.
ResDownload ==
    /\ dl # Null
    /\ dl[1].pc = "download"
    /\ resp' = IF dl[1].path \in files
               THEN Response("download", 200, <<dl[1].id>>,
                             <<[path |-> dl[1].path, name |-> dl[1].name]>>)
               ELSE Response("download", 404, <<dl[1].id>>, <<>>)
    /\ dl' = Null
    /\ UNCHANGED <<users, currentUserId, conversions, currentConversionId,
                   files, now, pc, loc, updRes, mq, del, zip, bulk,
                   listening, emitting>>

\* ------------------------------------------- callers of MemStorage methods
\* getConversionsByStatus(status), called with any status.
ListByStatus(status) ==
    /\ TaskMayStart
    /\ resp' = Response("listByStatus", 0, <<status>>,
                        GetConversionsByStatus(status))
    /\ UNCHANGED <<users, currentUserId, conversions, currentConversionId,
                   files, now, pc, loc, updRes, mq, del, zip, bulk, dl, listening, emitting>>

\* { ...insertUser, id }
NewUser(id, insertUser) ==
    [ id |-> id, username |-> insertUser.username,
      password |-> insertUser.password ]

CreateUserSharedCounter(insertUser) ==
    /\ TaskMayStart
    /\ currentUserId <= MaxUsers
    /\ currentConversionId <= MaxJobs
    /\ users' = [ i \in DOMAIN users \cup {currentConversionId} |->
                    IF i = currentConversionId
                    THEN NewUser(currentConversionId, insertUser)
                    ELSE users[i] ]
    /\ currentConversionId' = currentConversionId + 1
    /\ resp' = Response("createUser", 0, <<insertUser>>,
                        <<NewUser(currentConversionId, insertUser)>>)
    /\ UNCHANGED <<currentUserId, conversions, files, now, pc, loc, updRes, mq,
                   del, zip, bulk, dl, listening, emitting>>

\* createUser(insertUser), lines 39-44.
CreateUser(insertUser) ==
    /\ TaskMayStart
    /\ currentUserId <= MaxUsers
    /\ users' = [ i \in DOMAIN users \cup {currentUserId} |->
                    IF i = currentUserId
                    THEN NewUser(currentUserId, insertUser)
                    ELSE users[i] ]
    /\ currentUserId' = currentUserId + 1
    /\ resp' = Response("createUser", 0, <<insertUser>>,
                        <<NewUser(currentUserId, insertUser)>>)
    /\ UNCHANGED <<conversions, currentConversionId, files, now, pc, loc,
                   updRes, mq, del, zip, bulk, dl, listening, emitting>>

\* Patches a caller of updateConversion may pass.
StorePatches ==
    { ProcessingPatch, ProgressPatch(Some(504)),
      FailedPatch([isError |-> TRUE, message |-> "unavailable"]) }

\* updateConversion(id, updates), lines 75-82, called with any id and patch.
StoreUpdate(id, updates) ==
    /\ TaskMayStart
    /\ conversions' = UpdateConversion(id, updates)
    /\ resp' = Response("update", 0, <<id, updates>>, UpdateReturn(id, updates))
    /\ UNCHANGED <<users, currentUserId, currentConversionId, files, now, pc,
                   loc, updRes, mq, del, zip, bulk, dl, listening, emitting>>

\* ------------------------------------------------------------- behaviours
Init ==
    /\ users = <<>>
    /\ currentUserId = 1
    /\ conversions = <<>>
    /\ currentConversionId = 1
    /\ files = {}
    /\ now = 0
    /\ pc = <<>>
    /\ loc = <<>>
    /\ updRes = <<>>
    /\ mq = <<>>
    /\ del = <<>>
    /\ zip = ZipIdle
    /\ bulk = BulkIdle
    /\ dl = Null
    /\ listening = {}
    /\ emitting = {}
    /\ resp = NoResp

\* At most one of the pipelines called so far has not ended.
OneRunning == \A j, k \in DOMAIN pc : pc[j] # "done" /\ pc[k] # "done" => j = k

\* The answers of ytdl.getInfo for videos of the titles T: a pending
\* promise, or metadata fetched before.
CachedInfos(T) == {Null} \cup { Some(raw) : raw \in T }

\* The title, the error and the size of the specifications that take one of
\* each.
ZipTitles == { <<"a", "!">> }
ZipErrors == { [isError |-> TRUE, message |-> "unavailable"] }
ZipSizes == { 7 }

\* Jobs, their pipelines and delete requests, with every error, progress,
\* size and removal outcome of the collaborators, for videos of one title,
\* transcoders that report progress while they run and a client that sends
\* a delete request when the requests that wait for fs.remove are for the
\* same job.  The progress events that arrive after the error event of a
\* transcoder are those of NextLive, and the other titles those of NextGet.
Next ==
    \/ \E url \in SingleUrls : CreateSingle(url)
    \/ \E j \in DOMAIN pc : ProcProcessing(j)
    \/ \E j \in DOMAIN pc, cached \in CachedInfos(ZipTitles) :
          ProcGetInfo(j, cached)
    \/ \E S \in SUBSET DOMAIN pc, raw \in ZipTitles : GetInfoResolves(S, raw)
    \/ \E j \in DOMAIN pc, raw \in ZipTitles : ProcInfoOk(j, raw)
    \/ \E j \in DOMAIN pc : ProcTranscodeStart(j)
    \/ \E j \in DOMAIN pc, e \in Errors : ProcInfoFail(j, e)
    \/ \E j \in DOMAIN pc, p \in Percents :
          pc[j] = "transcode" /\ ProcProgress(j, p)
    \/ \E j \in DOMAIN pc : ProcTranscodeEnd(j)
    \/ \E j \in DOMAIN pc, e \in Errors, partial \in BOOLEAN :
          ProcTranscodeError(j, e, partial)
    \/ \E j \in DOMAIN pc, size \in Sizes : ProcStatOk(j, size)
    \/ \E j \in DOMAIN pc, e \in Errors : ProcStatFail(j, e)
    \/ \E id \in IdInputs : DOMAIN del \subseteq {id} /\ DelStart(id)
    \/ \E id \in DOMAIN del, ok \in BOOLEAN : FsRemove(id, ok)
    \/ \E id \in DOMAIN del, ok \in BOOLEAN : DelRemoved(id, ok)

Spec == Init /\ [][Next]_vars

\* Every pipeline called so far has ended.
AllEnded == \A j \in DOMAIN pc : pc[j] = "done"

\* Jobs, the outcomes of their pipelines, delete requests and bulk downloads,
\* for a client that submits a job when the pipelines of the earlier jobs
\* have ended and no bulk download is in flight, sends a bulk download when
\* the pipelines have ended and a delete request when none waits for
\* fs.remove, a transcoder that leaves no partial file and a file system
\* that performs every removal.  The bulk downloads that run beside a
\* pipeline are those of NextRead.
NextZip ==
    \/ AllEnded /\ zip = ZipIdle /\ \E url \in SingleUrls : CreateSingle(url)
    \/ \E j \in DOMAIN pc : ProcProcessing(j)
    \/ \E j \in DOMAIN pc : ProcGetInfo(j, Null)
    \/ \E S \in SUBSET DOMAIN pc, raw \in ZipTitles : GetInfoResolves(S, raw)
    \/ \E j \in DOMAIN pc, raw \in ZipTitles : ProcInfoOk(j, raw)
    \/ \E j \in DOMAIN pc : ProcTranscodeStart(j)
    \/ \E j \in DOMAIN pc : ProcTranscodeEnd(j)
    \/ \E j \in DOMAIN pc, e \in ZipErrors : ProcTranscodeError(j, e, FALSE)
    \/ \E j \in DOMAIN pc, size \in ZipSizes : ProcStatOk(j, size)
    \/ del = <<>> /\ \E id \in IdInputs : DelStart(id)
    \/ \E id \in DOMAIN del : FsRemove(id, TRUE)
    \/ \E id \in DOMAIN del : DelRemoved(id, TRUE)
    \/ AllEnded /\ \E body \in ZipBodies : ZipStart(body)
    \/ ZipPathExists
    \/ ZipStep
    \/ \E ok \in BOOLEAN : ArchiveFile(ok)
    \/ ZipEnd

SpecZip == Init /\ [][NextZip]_vars

\* Bulk submissions and the pipelines they start, up to the start of the
\* metadata fetch of a job whose video is new, and to the start of the
\* transcoder of job 1, whose metadata arrives, and of job 2, whose video
\* may be that of job 1.
NextBulk ==
    \/ \E urls \in BulkBodies : BulkStart(urls)
    \/ BulkResume
    \/ \E j \in DOMAIN pc : ProcProcessing(j)
    \/ \E j \in DOMAIN pc : ProcGetInfo(j, Null)
    \/ \E j \in DOMAIN pc, raw \in ZipTitles :
          j = 2 /\ ProcGetInfo(j, Some(raw))
    \/ \E raw \in ZipTitles : GetInfoResolves({1}, raw)
    \/ \E j \in DOMAIN pc, raw \in ZipTitles : ProcInfoTurn(j, raw)
    \/ \E j \in DOMAIN pc, raw \in ZipTitles : ProcInfoOk(j, raw)
    \/ \E j \in DOMAIN pc : ProcTranscodeStart(j)
    \/ Tick
    \/ List

SpecBulk == Init /\ [][NextBulk]_vars

\* The progress events of the fair specification.
LivePercents == { Some(504) }

\* The continuation of processConversion(j) runs, or the collaborator it
\* waits for resolves, or fails with an error of E.
PipelineStepWith(j, E) ==
    /\ j \in DOMAIN pc
    /\ \/ ProcProcessing(j)
       \/ ProcGetInfo(j, Null)
       \/ \E S \in SUBSET DOMAIN pc, raw \in ZipTitles :
             j \in S /\ GetInfoResolves(S, raw)
       \/ \E raw \in ZipTitles : ProcInfoOk(j, raw)
       \/ ProcTranscodeStart(j)
       \/ \E e \in E : ProcInfoFail(j, e)
       \/ ProcTranscodeEnd(j)
       \/ \E e \in E, partial \in BOOLEAN : ProcTranscodeError(j, e, partial)
       \/ \E size \in ZipSizes : ProcStatOk(j, size)
       \/ \E e \in E : ProcStatFail(j, e)

\* A step of the pipeline of job j, with either kind of error.
PipelineStep(j) == PipelineStepWith(j, Errors)

\* Jobs, their pipelines with either outcome of every collaborator, delete
\* requests, and progress events for as long as the transcoder writes its
\* log: while it runs and after its error event;
\* for a client that sends a delete request when none waits for fs.remove and
\* a file system that performs every removal.
NextLive ==
    \/ \E url \in SingleUrls : CreateSingle(url)
    \/ \E j \in 1..MaxJobs : PipelineStep(j)
    \/ \E j \in DOMAIN pc, p \in LivePercents : ProcProgress(j, p)
    \/ del = <<>> /\ \E id \in IdInputs : DelStart(id)
    \/ \E id \in DOMAIN del : FsRemove(id, TRUE)
    \/ \E id \in DOMAIN del : DelRemoved(id, TRUE)

\* The event loop runs every queued continuation, and every collaborator
\* call eventually resolves or fails.
SpecLive ==
    /\ Init
    /\ [][NextLive]_vars
    /\ \A j \in 1..MaxJobs : WF_vars(PipelineStep(j))

\* Single submissions, the metadata fetch of their pipelines, and requests
\* that read or delete one job.
NextGet ==
    \/ \E url \in SingleUrls : CreateSingle(url)
    \/ \E j \in DOMAIN pc : ProcProcessing(j)
    \/ \E j \in DOMAIN pc, cached \in CachedInfos(RawTitles) :
          ProcGetInfo(j, cached)
    \/ \E S \in SUBSET DOMAIN pc, raw \in RawTitles : GetInfoResolves(S, raw)
    \/ \E j \in DOMAIN pc, raw \in RawTitles : ProcInfoOk(j, raw)
    \/ \E j \in DOMAIN pc : ProcTranscodeStart(j)
    \/ \E j \in DOMAIN pc, e \in Errors : ProcInfoFail(j, e)
    \/ \E id \in IdInputs : GetOne(id)
    \/ \E id \in IdInputs : DelStart(id)

SpecGet == Init /\ [][NextGet]_vars

\* The methods of MemStorage in any order: users and jobs are created, jobs
\* are updated with any patch, and jobs are deleted.
NextStore ==
    \/ \E insertUser \in UserInputs : CreateUser(insertUser)
    \/ \E url \in SingleUrls : CreateSingle(url)
    \/ \E j \in DOMAIN pc : ProcProcessing(j)
    \/ \E j \in DOMAIN pc : ProcGetInfo(j, Null)
    \/ \E id \in IdInputs, updates \in StorePatches : StoreUpdate(id, updates)
    \/ \E id \in IdInputs : DelStart(id)

SpecStore == Init /\ [][NextStore]_vars

\* The bulk downloads of the reading client: of one job, or of all jobs in
\* the order of their ids.
RECURSIVE UpTo(_)
UpTo(n) == IF n = 0 THEN <<>> ELSE Append(UpTo(n - 1), n)

ReadBodies == { Some(<<id>>) : id \in IdInputs } \cup { Some(UpTo(MaxJobs)) }

\* Jobs with two concurrent pipelines, delete requests, and every request
\* that reads the store: get, list, list by status, single and bulk download;
\* for a client that submits a job when at most one pipeline is running,
\* sends a delete request when none waits for fs.remove, and has one reading
\* request in flight at a time, for transcoders that report progress while
\* they run, collaborators that fail with an Error, a file system that performs every
\* removal and an archiver that reads every file it finds.
NextRead ==
    \/ OneRunning /\ \E url \in SingleUrls : CreateSingle(url)
    \/ \E j \in 1..MaxJobs : PipelineStepWith(j, ZipErrors)
    \/ \E j \in DOMAIN pc, p \in LivePercents :
          pc[j] = "transcode" /\ ProcProgress(j, p)
    \/ del = <<>> /\ \E id \in IdInputs : DelStart(id)
    \/ \E id \in DOMAIN del : FsRemove(id, TRUE)
    \/ \E id \in DOMAIN del : DelRemoved(id, TRUE)
    \/ zip = ZipIdle /\ dl = Null /\ \E id \in IdInputs : GetOne(id)
    \/ zip = ZipIdle /\ dl = Null /\ List
    \/ zip = ZipIdle /\ dl = Null /\ \E status \in Statuses : ListByStatus(status)
    \/ zip = ZipIdle /\ \E id \in IdInputs : DlStart(id)
    \/ DlPathExists
    \/ DlExists
    \/ ResDownload
    \/ dl = Null /\ \E body \in ReadBodies : ZipStart(body)
    \/ ZipPathExists
    \/ ZipStep
    \/ ArchiveFile(TRUE)
    \/ ZipEnd

SpecRead == Init /\ [][NextRead]_vars

\* Jobs, the outcomes of their pipelines, delete requests with either outcome
\* of fs.remove, and single downloads; for a client that submits a job when
\* the pipelines of the earlier jobs have ended, sends a delete request when
\* none waits for fs.remove and has one download in flight at a time, and a
\* transcoder that leaves no partial file.
NextDownload ==
    \/ AllEnded /\ \E url \in SingleUrls : CreateSingle(url)
    \/ \E j \in DOMAIN pc : ProcProcessing(j)
    \/ \E j \in DOMAIN pc : ProcGetInfo(j, Null)
    \/ \E S \in SUBSET DOMAIN pc, raw \in ZipTitles : GetInfoResolves(S, raw)
    \/ \E j \in DOMAIN pc, raw \in ZipTitles : ProcInfoOk(j, raw)
    \/ \E j \in DOMAIN pc : ProcTranscodeStart(j)
    \/ \E j \in DOMAIN pc : ProcTranscodeEnd(j)
    \/ \E j \in DOMAIN pc, e \in ZipErrors : ProcTranscodeError(j, e, FALSE)
    \/ \E j \in DOMAIN pc, size \in ZipSizes : ProcStatOk(j, size)
    \/ del = <<>> /\ \E id \in IdInputs : DelStart(id)
    \/ \E id \in DOMAIN del, ok \in BOOLEAN : FsRemove(id, ok)
    \/ \E id \in DOMAIN del, ok \in BOOLEAN : DelRemoved(id, ok)
    \/ \E id \in IdInputs : DlStart(id)
    \/ DlPathExists
    \/ DlExists
    \/ ResDownload

SpecDownload == Init /\ [][NextDownload]_vars

\* Jobs up to the end of their transcoder, with progress events of every
\* kind, and delete requests.
NextProgress ==
    \/ AllEnded /\ \E url \in SingleUrls : CreateSingle(url)
    \/ \E j \in DOMAIN pc : ProcProcessing(j)
    \/ \E j \in DOMAIN pc : ProcGetInfo(j, Null)
    \/ \E S \in SUBSET DOMAIN pc, raw \in ZipTitles : GetInfoResolves(S, raw)
    \/ \E j \in DOMAIN pc, raw \in ZipTitles : ProcInfoOk(j, raw)
    \/ \E j \in DOMAIN pc : ProcTranscodeStart(j)
    \/ \E j \in DOMAIN pc, p \in ProgressInputs : ProcProgress(j, p)
    \/ \E j \in DOMAIN pc, e \in ZipErrors : ProcTranscodeError(j, e, FALSE)
    \/ del = <<>> /\ \E id \in IdInputs : DelStart(id)

SpecProgress == Init /\ [][NextProgress]_vars

\* ------------------------------------------------------------------ claims
\* The identifiers assigned so far.
Assigned == 1..(currentConversionId - 1)

\* One step of a status: it stays, or moves pending -> processing ->
\* completed | failed.
StatusMove(a, b) ==
    \/ a = b
    \/ a = "pending" /\ b = "processing"
    \/ a = "processing" /\ b \in {"completed", "failed"}

\* C1: in every step, the status of a job that is created is pending, and the
\* status of a stored job stays or moves pending -> processing -> (completed |
\* failed); it never regresses and never leaves completed or failed.
C1_StatusOnlyMovesForward ==
    [][\A id \in DOMAIN conversions' :
          IF id \in DOMAIN conversions
          THEN StatusMove(conversions[id].status, conversions'[id].status)
          ELSE conversions'[id].status = "pending"]_vars

\* One job has ended completed and another failed.
C1_Witness ==
    \E a, b \in DOMAIN conversions :
        /\ conversions[a].status = "completed" /\ pc[a] = "done"
        /\ conversions[b].status = "failed" /\ pc[b] = "done"

\* C2: a completed job has filePath, fileName, fileSize and completedAt and
\* progress 100; a failed job has an errorMessage and no filePath, fileName
\* or fileSize.
C2_TerminalFields ==
    \A id \in DOMAIN conversions :
        LET c == conversions[id]
        IN /\ c.status = "completed" =>
                /\ c.filePath # Null /\ c.fileName # Null
                /\ c.fileSize # Null /\ c.completedAt # Null
                /\ c.progress = 100
           /\ c.status = "failed" =>
                /\ c.errorMessage # Null
                /\ c.filePath = Null /\ c.fileName = Null /\ c.fileSize = Null

\* One job is completed, with the size of its file, and another failed with
\* the progress of an event of its transcoder; both pipelines have ended.
C2_Witness ==
    \E a, b \in DOMAIN conversions :
        /\ conversions[a].status = "completed" /\ pc[a] = "done"
        /\ conversions[a].fileSize = Some(7)
        /\ conversions[b].status = "failed" /\ pc[b] = "done"
        /\ conversions[b].progress = 50

\* C3: a job that was deleted stays absent: no step puts its id back into the
\* store, and a step of its pipeline leaves the store as it is, its update
\* returning absent.
C3_DeletedStaysDeleted ==
    [][\A id \in Assigned \ DOMAIN conversions :
          /\ GetConversion(id) = Null
          /\ id \notin DOMAIN conversions'
          /\ (pc'[id] # pc[id] \/ updRes'[id] # updRes[id]) =>
                /\ conversions' = conversions
                /\ updRes'[id] \in {updRes[id], "absent"}]_vars

\* The pipeline of a deleted job has ended, and its latest update returned
\* absent.
C3_Witness ==
    \E id \in Assigned \ DOMAIN conversions :
        pc[id] = "done" /\ updRes[id] = "absent"

\* The jobs and the counter before the bulk request that is answered in this
\* step.
BeforeBulk ==
    IF bulk.pc = "idle"
    THEN [ids |-> DOMAIN conversions, next |-> currentConversionId]
    ELSE bulk.before

\* C4: when a URL of a bulk submission fails validation, the request is
\* rejected and the jobs, the counter and the pipelines are those from before
\* the request.
C4_BulkAllOrNothing ==
    [][(/\ resp'.op = "bulk"
        /\ \E p \in 1..Len(resp'.req) :
              ~IsUrl(resp'.req[p]) \/ ~ValidateURL(resp'.req[p]))
       => /\ resp'.code = 400
          /\ DOMAIN conversions' = BeforeBulk.ids
          /\ currentConversionId' = BeforeBulk.next
          /\ \A j \in DOMAIN pc' : j < BeforeBulk.next]_vars

\* C5: a bulk submission of 0 or of more than 10 URLs is rejected and creates
\* no job; one of 1 to 10 YouTube URLs creates one job per URL and returns
\* them in input order with increasing identifiers.
C5_BulkCardinality ==
    [][resp'.op = "bulk" =>
          LET urls == resp'.req
              n == Len(urls)
              created == DOMAIN conversions' \ BeforeBulk.ids
          IN /\ (n = 0 \/ n > 10) =>
                  /\ resp'.code = 400
                  /\ created = {}
                  /\ currentConversionId' = BeforeBulk.next
             /\ (n >= 1 /\ n <= 10 /\ \A p \in 1..n : ValidateURL(urls[p])) =>
                  /\ resp'.code = 200
                  /\ Len(resp'.body) = n
                  /\ created = { resp'.body[p].id : p \in 1..n }
                  /\ Cardinality(created) = n
                  /\ \A p \in 1..n : resp'.body[p].url = urls[p]
                  /\ \A p, q \in 1..n :
                        p < q => resp'.body[p].id < resp'.body[q].id]_vars

\* A submission of 10 URLs was answered with its 10 jobs.
C5_Witness ==
    /\ resp.op = "bulk" /\ resp.code = 200
    /\ Len(resp.req) = 10 /\ Len(resp.body) = 10
    /\ Cardinality(DOMAIN conversions) >= 10

\* The id names a stored job that is completed and has a filePath.
Resolves(id) ==
    /\ id \in DOMAIN conversions
    /\ conversions[id].status = "completed"
    /\ conversions[id].filePath # Null

\* The position in the request of the file f handed to the archiver is that
\* of a kept record, and f is the artifact of the id at that position.
IsKeptArtifact(z, f) ==
    /\ \E m \in 1..Len(z.valid) :
          z.valid[m].pos = f.pos /\ z.valid[m].filePath = Some(f.path)
    /\ f.pos \in 1..Len(z.ids)
    /\ f.path.id = z.ids[f.pos]

\* The archiver takes up the oldest file handed to it.
IsArchiverStep == Len(zip'.queue) < Len(zip.queue)

\* The request is answered with the archive.
IsArchiveAnswer == zip.pc = "finalize" /\ resp'.op = "zip" /\ resp'.code = 200

IsZipOutcome ==
    \/ resp'.op = "zip" /\ resp'.code \in {400, 404}
    \/ zip.pc = "idle" /\ zip'.pc # "idle"

\* The body of the request of that step.
ZipRequest ==
    IF resp'.op = "zip" THEN resp'.req ELSE Some(zip'.ids)

\* Not-found is signalled and no archive is opened.
ZipNotFound == resp'.op = "zip" /\ resp'.code = 404 /\ zip'.pc = "idle"

\* C7 as stated: a bulk download for a list of ids none of which resolves
\* signals not-found and streams no archive.
C7_NoneResolvingIsNotFound ==
    [][(/\ IsZipOutcome
        /\ ZipRequest # Null
        /\ \A k \in 1..Len(ZipRequest[1]) : ~Resolves(ZipRequest[1][k]))
       => ZipNotFound]_vars

\* C7 as amended: a bulk download for a non-empty list of ids none of which
\* resolves signals not-found and streams no archive; for the empty list it
\* signals a validation error and streams no archive.
C7_NonEmptyNoneResolvingIsNotFound ==
    [][(IsZipOutcome /\ ZipRequest # Null) =>
          /\ (/\ Len(ZipRequest[1]) > 0
              /\ \A k \in 1..Len(ZipRequest[1]) : ~Resolves(ZipRequest[1][k]))
             => ZipNotFound
          /\ Len(ZipRequest[1]) = 0 =>
                resp'.op = "zip" /\ resp'.code = 400 /\ zip'.pc = "idle"]_vars

\* Not-found was signalled for a failed job and an id that is not stored.
C7_Witness ==
    /\ resp.op = "zip" /\ resp.code = 404 /\ zip.pc = "idle"
    /\ Len(resp.req[1]) = 2
    /\ resp.req[1][1] \in DOMAIN conversions
    /\ conversions[resp.req[1][1]].status = "failed"
    /\ resp.req[1][2] \notin DOMAIN conversions

C9_DeleteRemovesRecordAndArtifact ==
    \A id \in Assigned :
        (id \notin DOMAIN conversions /\ id \notin DOMAIN del /\ pc[id] = "done")
            => \A f \in files : f.id # id

\* C10: a delete request is answered 200 exactly when the record existed when
\* deleteConversion ran, and 404 otherwise; it removes that record and no
\* other, and leaves the store unchanged when there was none.
C10_DeleteReportsExistence ==
    [][resp'.op = "delete" =>
          LET id == resp'.req[1]
          IN /\ resp'.code \in {200, 404}
             /\ resp'.code = 200 <=> id \in DOMAIN conversions
             /\ DOMAIN conversions' = DOMAIN conversions \ {id}
             /\ \A i \in DOMAIN conversions' : conversions'[i] = conversions[i]
             /\ id \notin DOMAIN conversions => conversions' = conversions]_vars

\* A delete of a job that had been deleted before was answered 404.
C10_Witness ==
    /\ resp.op = "delete" /\ resp.code = 404
    /\ resp.req[1] \in Assigned
    /\ resp.req[1] \notin DOMAIN conversions
    /\ conversions # <<>>

\* C11: a job that is created gets an identifier greater than every job
\* identifier assigned before, those of deleted jobs included, and leaves the
\* users and their counter unchanged; a user that is created gets an
\* identifier greater than those of the users before and leaves the jobs and
\* their counter unchanged; no counter ever decreases.
C11_IdentifiersNeverReused ==
    [][/\ \A id \in DOMAIN conversions' \ DOMAIN conversions :
            /\ \A j \in DOMAIN pc \cup DOMAIN conversions : id > j
            /\ id = currentConversionId
            /\ currentConversionId' = id + 1
            /\ users' = users /\ currentUserId' = currentUserId
       /\ \A u \in DOMAIN users' \ DOMAIN users :
            /\ \A v \in DOMAIN users : u > v
            /\ u = currentUserId
            /\ currentUserId' = u + 1
            /\ conversions' = conversions
            /\ currentConversionId' = currentConversionId
       /\ currentConversionId' >= currentConversionId
       /\ currentUserId' >= currentUserId]_vars

\* Job 1 was updated and deleted, job 2 was created after that, and users
\* were created in between.
C11_Witness ==
    /\ 1 \in DOMAIN pc /\ 1 \notin DOMAIN conversions
    /\ 2 \in DOMAIN conversions
    /\ conversions[2].status = "failed"
    /\ DOMAIN users = {1, 2}
    /\ currentConversionId = 3

\* C12: updateConversion(id, patch) on a stored id sets the fields of the
\* patch, keeps the other fields of the record and the other records, and
\* returns the merged record; on an id that is not stored it returns absent
\* and leaves the store unchanged.
C12_UpdateFrame ==
    [][resp'.op = "update" =>
          LET id == resp'.req[1]
              patch == resp'.req[2]
          IN IF id \in DOMAIN conversions
             THEN /\ DOMAIN conversions' = DOMAIN conversions
                  /\ \A i \in DOMAIN conversions \ {id} :
                        conversions'[i] = conversions[i]
                  /\ DOMAIN conversions'[id] = DOMAIN conversions[id]
                  /\ \A f \in DOMAIN conversions[id] :
                        conversions'[id][f] =
                            IF f \in DOMAIN patch THEN patch[f]
                            ELSE conversions[id][f]
                  /\ resp'.body = Some(conversions'[id])
             ELSE /\ conversions' = conversions
                  /\ resp'.body = Null]_vars

\* A progress patch was merged into a failed job while another job is
\* stored: the status and the error message were kept.
C12_Witness ==
    /\ resp.op = "update"
    /\ resp.body # Null
    /\ DOMAIN resp.req[2] = {"progress"}
    /\ resp.body[1].status = "failed"
    /\ resp.body[1].errorMessage # Null
    /\ resp.body[1].progress = 50
    /\ Cardinality(DOMAIN conversions) = 2

\* C13: the list of jobs holds every stored job once, and a job created
\* later (one with a greater identifier) stands before every job created
\* earlier, also when both were created at the same time.
C13_ListMostRecentFirst ==
    [][resp'.op = "list" =>
          /\ Len(resp'.body) = Cardinality(DOMAIN conversions)
          /\ \A id \in DOMAIN conversions :
                \E p \in 1..Len(resp'.body) : resp'.body[p] = conversions[id]
          /\ \A p, q \in 1..Len(resp'.body) :
                p < q => resp'.body[p].id > resp'.body[q].id]_vars

\* C14: while the status of a job is processing, no step lowers its stored
\* progress.
C14_ProgressNeverDecreases ==
    [][\A id \in DOMAIN conversions \cap DOMAIN conversions' :
          (/\ conversions[id].status = "processing"
           /\ conversions'[id].status = "processing")
          => conversions'[id].progress >= conversions[id].progress]_vars

\* C15: progress is in 0..100, it is 0 for a job that is created, it is 100
\* only for a completed job, and a job that becomes failed or is failed keeps
\* its progress.
C15_ProgressRange ==
    [][\A id \in DOMAIN conversions' :
          /\ conversions'[id].progress \in 0..100
          /\ conversions'[id].progress = 100
                => conversions'[id].status = "completed"
          /\ id \notin DOMAIN conversions => conversions'[id].progress = 0
          /\ (id \in DOMAIN conversions /\ conversions'[id].status = "failed")
                => conversions'[id].progress = conversions[id].progress]_vars

\* C16: no job has both a filePath and an errorMessage; filePath, fileName,
\* fileSize and completedAt are set only in a completed job, and errorMessage
\* only in a failed job.
C16_ArtifactXorError ==
    \A id \in DOMAIN conversions :
        LET c == conversions[id]
        IN /\ ~(c.filePath # Null /\ c.errorMessage # Null)
           /\ (\/ c.filePath # Null \/ c.fileName # Null
               \/ c.fileSize # Null \/ c.completedAt # Null)
                => c.status = "completed"
           /\ c.errorMessage # Null => c.status = "failed"

\* A completed job without an error message next to a job that failed after
\* its title was written.
C16_Witness ==
    \E a, b \in DOMAIN conversions :
        /\ conversions[a].status = "completed"
        /\ conversions[a].filePath # Null /\ conversions[a].errorMessage = Null
        /\ conversions[b].status = "failed"
        /\ conversions[b].title # Null /\ conversions[b].errorMessage # Null
        /\ conversions[b].filePath = Null

\* C17: once an update of a pipeline has returned absent the pipeline has
\* ended: it waits for no collaborator, takes no further step and writes no
\* file.
C17_PipelineStopsWhenAbsent ==
    [][\A j \in DOMAIN pc' :
          /\ updRes'[j] = "absent" => pc'[j] = "done"
          /\ (j \in DOMAIN pc /\ updRes[j] = "absent") =>
                /\ pc'[j] = pc[j]
                /\ updRes'[j] = updRes[j]
                /\ { f \in files' : f.id = j } = { f \in files : f.id = j }]_vars

\* C18: every job that is stored is eventually completed, failed or deleted.
C18_NoJobHangs ==
    \A j \in 1..MaxJobs :
        (j \in DOMAIN conversions)
            ~> (\/ j \notin DOMAIN conversions
                \/ conversions[j].status \in {"completed", "failed"})

\* One pipeline ended in failed after the transcoder had written its file,
\* the other ended in completed.
C18_Witness ==
    /\ DOMAIN conversions = {1, 2}
    /\ AllEnded
    /\ conversions[1].status = "failed"
    /\ conversions[1].progress = 50
    /\ \E f \in files : f.id = 1
    /\ conversions[2].status = "completed"

\* The fields of a job that was just created.
IsFresh(c) ==
    /\ c.status = "pending" /\ c.progress = 0
    /\ c.title = Null /\ c.filePath = Null /\ c.fileName = Null
    /\ c.fileSize = Null /\ c.errorMessage = Null /\ c.completedAt = Null

\* C19: a job is created with status pending, progress 0 and no title,
\* artifact, error or completion time; and a request that reads a stored job
\* after its submission, before the metadata fetch of its pipeline has
\* answered, gets status pending and progress 0.
C19_GetAfterSubmitIsPending ==
    [][/\ \A id \in DOMAIN conversions' \ DOMAIN conversions :
            IsFresh(conversions'[id])
       /\ (/\ resp'.op = "get"
           /\ resp'.req[1] \in DOMAIN conversions
           /\ pc[resp'.req[1]] \in {"entered", "accepted", "info"})
          => /\ resp'.code = 200
             /\ resp'.body[1].status = "pending"
             /\ resp'.body[1].progress = 0]_vars

\* C20: a single submission of a URL that is not a YouTube URL is answered
\* 400 and changes neither the store, nor the counter, nor the pipelines, nor
\* the files.
C20_InvalidSubmissionChangesNothing ==
    [][(resp'.op = "create" /\ resp'.req[1] \in {"web", "bad"}) =>
          /\ resp'.code = 400
          /\ conversions' = conversions
          /\ currentConversionId' = currentConversionId
          /\ pc' = pc /\ loc' = loc /\ updRes' = updRes /\ mq' = mq
          /\ files' = files]_vars

\* A URL of another site was rejected while job 1 waited for its metadata
\* and job 2 could still be created.
C20_Witness ==
    /\ resp.op = "create" /\ resp.code = 400
    /\ resp.req[1] = "web"
    /\ DOMAIN conversions = {1}
    /\ pc[1] = "info"
    /\ currentConversionId = 2

\* A step of the pipeline of job j: a continuation of processConversion(j),
\* an outcome of a collaborator it waits for, or a progress event.
OwnStep(j) ==
    \/ PipelineStep(j)
    \/ \E p \in LivePercents : ProcProgress(j, p)

\* The operations that only read the store.
ReaderOps == {"get", "list", "listByStatus", "download", "zip"}

\* C21: a step that answers get, list, list by status, single download or
\* bulk download, or that moves a download in flight, leaves the whole store
\* unchanged; a step in which a record other than that of job j changes or
\* disappears is no step of the pipeline of j; and a stored record either stays as it is, or is
\* changed by a step of its own pipeline, or is removed by a step that answers
\* a delete request for its id.
C21_OnlyOwnPipelineOrDelete ==
    [][ /\ (resp'.op \in ReaderOps \/ dl' # dl \/ zip' # zip)
            => conversions' = conversions
        /\ conversions' # conversions =>
              /\ \A j \in DOMAIN pc :
                    (\E k \in DOMAIN conversions \ {j} :
                        \/ k \notin DOMAIN conversions'
                        \/ conversions'[k] # conversions[k]) => ~OwnStep(j)
              /\ \A k \in DOMAIN conversions :
                    \/ k \in DOMAIN conversions' /\ conversions'[k] = conversions[k]
                    \/ k \in DOMAIN conversions' /\ k \in DOMAIN pc /\ OwnStep(k)
                    \/ /\ k \notin DOMAIN conversions'
                       /\ resp'.op = "delete" /\ resp'.req = <<k>> ]_vars

\* Two jobs are stored, the pipeline of job 1 has completed it while job 2
\* is still processing, and a single download of job 1 was just answered.
C21_Witness ==
    /\ DOMAIN conversions = {1, 2}
    /\ conversions[1].status = "completed"
    /\ conversions[2].status = "processing"
    /\ resp.op = "download" /\ resp.code = 200 /\ resp.req = <<1>>

\* C22: a progress event with any percent (missing, negative, zero, between
\* the bounds, above 100) of a stored job stores a progress q with
\* 15 <= q <= 95: the integer r nearest to the percent (halves upwards, a
\* missing percent counted as 0) when 15 <= r <= 95, 15 when r < 15 and 95
\* when r > 95.
C22_ProgressClamped ==
    [][ \A j \in DOMAIN pc, p \in ProgressInputs :
          ProcProgress(j, p) /\ j \in DOMAIN conversions =>
            LET t == IF p = Null THEN 0 ELSE p[1]
                q == conversions'[j].progress
            IN /\ q \in 15..95
               /\ \A r \in (0 - 1)..121 :
                     (10 * r - 5 <= t /\ t < 10 * r + 5) =>
                        q = IF r < 15 THEN 15 ELSE IF r > 95 THEN 95 ELSE r ]_vars

\* A progress event above the upper bound was stored for a processing job.
C22_Witness ==
    /\ 1 \in DOMAIN conversions
    /\ conversions[1].status = "processing"
    /\ conversions[1].progress = 95
    /\ pc[1] = "transcode"

\* The writes a stored record may show in one step, in the order of the
\* pipeline: a, the record before; b, the record after.
IsProcessingWrite(a, b) ==
    /\ IsFresh(a)
    /\ b = [a EXCEPT !.status = "processing", !.progress = 5]

IsTitleWrite(a, b) ==
    /\ a.status = "processing" /\ a.title = Null /\ a.progress = 5
    /\ b.title # Null
    /\ b = [a EXCEPT !.title = b.title, !.progress = 15]

IsProgressWrite(a, b) ==
    /\ a.status = "processing" /\ a.title # Null
    /\ b.progress \in 15..95
    /\ b = [a EXCEPT !.progress = b.progress]

IsCompletedWrite(a, b) ==
    /\ a.status = "processing" /\ a.title # Null
    /\ b.status = "completed" /\ b.progress = 100
    /\ b.filePath # Null /\ b.fileName # Null
    /\ b.fileSize # Null /\ b.completedAt # Null
    /\ b = [a EXCEPT !.status = b.status, !.progress = b.progress,
                     !.filePath = b.filePath, !.fileName = b.fileName,
                     !.fileSize = b.fileSize, !.completedAt = b.completedAt]

IsFailedWrite(a, b) ==
    /\ a.status = "processing"
    /\ b.status = "failed" /\ b.errorMessage # Null
    /\ b = [a EXCEPT !.status = b.status, !.errorMessage = b.errorMessage]

\* C23: in every step a record that stays stored is unchanged or shows
\* exactly the next write of its pipeline: (processing, 5) on a fresh record;
\* then (title, 15); then progress writes within 15..95 on the titled record;
\* then one terminal write, completed with progress 100 and the artifact
\* fields, or failed with an error detail.  A record in a terminal status
\* shows no write, so the terminal write is the only one.
C23_WritesInStepOrder ==
    [][ \A j \in DOMAIN conversions \cap DOMAIN conversions' :
          LET a == conversions[j]
              b == conversions'[j]
          IN \/ a = b
             \/ IsProcessingWrite(a, b)
             \/ IsTitleWrite(a, b)
             \/ IsProgressWrite(a, b)
             \/ IsCompletedWrite(a, b)
             \/ IsFailedWrite(a, b) ]_vars

\* The metadata fetch, the stream fetch or the transcoder, or the size query
\* of job j fails with e.
Fails(j, e) ==
    \/ ProcInfoFail(j, e)
    \/ \E partial \in BOOLEAN : ProcTranscodeError(j, e, partial)
    \/ ProcStatFail(j, e)

\* C24: a step in which the metadata fetch, the stream fetch or transcode, or
\* the size query of a stored job fails leaves the record with status failed
\* and a non-null error detail and ends the pipeline; an ended pipeline never
\* runs again (no retry, no later step); and a failed record keeps its status
\* and its error detail, so it never becomes completed.
C24_FailureIsFinal ==
    [][ \A j \in DOMAIN pc :
          /\ \A e \in Errors :
                Fails(j, e) /\ j \in DOMAIN conversions =>
                    /\ j \in DOMAIN conversions'
                    /\ conversions'[j].status = "failed"
                    /\ conversions'[j].errorMessage # Null
                    /\ pc'[j] = "done"
          /\ pc[j] = "done" => pc'[j] = "done"
          /\ ( /\ j \in DOMAIN conversions \cap DOMAIN conversions'
               /\ conversions[j].status = "failed" ) =>
                /\ conversions'[j].status = "failed"
                /\ conversions'[j].errorMessage = conversions[j].errorMessage ]_vars

\* Job 1 failed at the metadata fetch and job 2 failed after its title was
\* written, at the transcoder or the size query; both pipelines have ended.
C24_Witness ==
    /\ DOMAIN conversions = {1, 2}
    /\ conversions[1].status = "failed" /\ conversions[1].title = Null
    /\ conversions[1].errorMessage # Null
    /\ conversions[2].status = "failed" /\ conversions[2].title # Null
    /\ conversions[2].errorMessage # Null
    /\ pc[1] = "done" /\ pc[2] = "done"

C26_KeysPartition ==
    /\ \A j, k \in DOMAIN conversions :
          (j # k /\ conversions[j].filePath # Null) =>
              conversions[k].filePath # conversions[j].filePath
    /\ \A j, k \in DOMAIN loc :
          (j # k /\ loc[j].filePath # Null) =>
              /\ loc[k].filePath # loc[j].filePath
              /\ k \in DOMAIN conversions =>
                    conversions[k].filePath # loc[j].filePath
    /\ \A j \in DOMAIN conversions :
          conversions[j].filePath # Null => conversions[j].filePath[1].id = j
    /\ \A f \in files :
          f.id \in DOMAIN pc /\ pc[f.id] \in {"stat", "done"}

\* Two jobs whose keys were derived in the same millisecond are completed
\* and both files exist.
C26_Witness ==
    /\ DOMAIN conversions = {1, 2}
    /\ conversions[1].filePath # Null /\ conversions[2].filePath # Null
    /\ conversions[1].filePath[1].nonce = conversions[2].filePath[1].nonce
    /\ conversions[1].filePath[1] \in files
    /\ conversions[2].filePath[1] \in files

\* C27: in every step of a record that stays stored, its id, url and
\* createdAt are unchanged; a title that is set is unchanged; and a title is
\* set only by the step of its own pipeline in which the metadata arrived.
C27_TitleWrittenOnce ==
    [][ \A j \in DOMAIN conversions \cap DOMAIN conversions' :
          LET a == conversions[j]
              b == conversions'[j]
          IN /\ b.id = a.id /\ b.url = a.url /\ b.createdAt = a.createdAt
             /\ a.title # Null => b.title = a.title
             /\ b.title # a.title =>
                   /\ pc[j] = "info" /\ pc'[j] = "titled"
                   /\ b.title # Null ]_vars

\* Job 1 failed after its title was written and job 2 is completed: both
\* titles went through the later writes of their pipelines.
C27_Witness ==
    /\ DOMAIN conversions = {1, 2}
    /\ conversions[1].status = "failed" /\ conversions[1].title # Null
    /\ conversions[2].status = "completed" /\ conversions[2].title # Null
    /\ conversions[2].progress = 100

\* C28: when a delete request comes back from fs.remove, whether the removal
\* succeeded, failed, or found the file already missing, the record is not
\* stored afterwards and the request is answered 200 when the record was
\* stored until then and 404 otherwise, never with the failure.
C28_RemoveFailureIsSwallowed ==
    [][ \A id \in DOMAIN del :
          ( /\ del' # del
            /\ resp'.op = "delete" /\ resp'.req = <<id>> ) =>
              /\ id \notin DOMAIN conversions'
              /\ resp'.code = IF id \in DOMAIN conversions THEN 200 ELSE 404 ]_vars

\* Two delete requests of job 1 waited for fs.remove; the removal of the
\* first failed and left the file, its record was removed and the request
\* was answered 200, while the second still waits.
C28_Witness ==
    /\ 1 \in DOMAIN del
    /\ del[1].path \in files
    /\ 1 \notin DOMAIN conversions
    /\ resp.op = "delete" /\ resp.code = 200 /\ resp.req = <<1>>

\* C29: the pipeline of a stored job whose status is completed or failed has
\* ended, so that no step or progress event of it is left to run; in every
\* step such a record is either stored unchanged, field for field, or is
\* removed by a step that answers a delete request for its id.
C29_TerminalRecordIsFrozen ==
    [][ \A j \in DOMAIN conversions :
          conversions[j].status \in {"completed", "failed"} =>
              /\ pc[j] = "done" /\ pc'[j] = "done"
              /\ \/ j \in DOMAIN conversions' /\ conversions'[j] = conversions[j]
                 \/ /\ j \notin DOMAIN conversions'
                    /\ resp'.op = "delete" /\ resp'.req = <<j>> ]_vars

\* C30: in every reachable state, a stored job with status pending has
\* progress 0 and no title; one with status processing and no title has
\* progress 5; one with status processing and a title has a progress within
\* 15..95.
C30_ProgressMatchesPhase ==
    \A j \in DOMAIN conversions :
        LET c == conversions[j]
        IN /\ c.status = "pending" => c.progress = 0 /\ c.title = Null
           /\ (c.status = "processing" /\ c.title = Null) => c.progress = 5
           /\ (c.status = "processing" /\ c.title # Null) => c.progress \in 15..95

\* Job 1 is processing with a title and a progress at the upper bound, and
\* job 2 was just created and is pending.
C30_Witness ==
    /\ DOMAIN conversions = {1, 2}
    /\ conversions[1].status = "processing" /\ conversions[1].title # Null
    /\ conversions[1].progress = 95
    /\ conversions[2].status = "pending" /\ conversions[2].progress = 0

\* Job 1 is processing and waits for its metadata.
C30_WitnessAccepted ==
    /\ 1 \in DOMAIN conversions
    /\ conversions[1].status = "processing" /\ conversions[1].title = Null
    /\ conversions[1].progress = 5 /\ pc[1] = "info"

\* C31: whenever a bulk download is answered with the streamed archive
\* (200) instead of not-found, the archive has at least one entry, whatever
\* delete requests run between its steps.
C31_ArchiveHasAnEntry ==
    (resp.op = "zip" /\ resp.code = 200) => resp.body # <<>>

\* C32: after every step, every stored record has the id field equal to the
\* key it is stored under, every stored key is at least 1 and less than the
\* next-id counter, and the counter is not lower than before the step.
C32_KeysAndCounter ==
    [][ /\ currentConversionId' >= currentConversionId
        /\ \A k \in DOMAIN conversions' :
              /\ conversions'[k].id = k
              /\ 1 <= k /\ k < currentConversionId' ]_vars

\* Job 1 was deleted and job 2 is stored and was updated: the counter
\* stayed at 3.
C32_Witness ==
    /\ DOMAIN conversions = {2}
    /\ conversions[2].id = 2
    /\ conversions[2].status = "failed"
    /\ currentConversionId = 3

====
